---- MODULE Spec2Model ----
(***************************************************************************)
(* A model of nlpy's regularized primal-dual interior-point LP solver      *)
(* (nlpy/optimize/solvers/lp.py): problem scaling, the initial point, the  *)
(* main loop of solve() with its regularization escalation, the            *)
(* step-length rule and the life of a solver object over several calls of  *)
(* solve(); and of the trust-region radius management of                   *)
(* nlpy/optimize/tr/trustregion.py.                                        *)
(*                                                                         *)
(* Floating-point numbers are modelled by exact rationals <<n, d>> with    *)
(* d > 0 and gcd(n, d) = 1.  Vectors are sequences, indexed from 1 (the    *)
(* source indexes from 0); the "no blocking index" value -1 is kept.       *)
(***************************************************************************)
EXTENDS Integers, Sequences, FiniteSets, TLC

----------------------------------------------------------------------------
(* Exact rational arithmetic.                                              *)

Abs(i) == IF i < 0 THEN -i ELSE i

RECURSIVE GCD(_, _)
GCD(a, b) == IF b = 0 THEN a ELSE GCD(b, a % b)

Rat(n, d) ==
    LET g == GCD(Abs(n), Abs(d))
        sg == IF d < 0 THEN -1 ELSE 1
    IN  <<(sg * n) \div g, (sg * d) \div g>>

Zero == <<0, 1>>
One == <<1, 1>>

RNeg(a) == <<-a[1], a[2]>>

RAdd(a, b) ==
    LET g == GCD(a[2], b[2])
    IN  Rat(a[1] * (b[2] \div g) + b[1] * (a[2] \div g), (a[2] \div g) * b[2])

RSub(a, b) == RAdd(a, RNeg(b))

RMul(a, b) ==
    LET g1 == GCD(Abs(a[1]), b[2])
        g2 == GCD(Abs(b[1]), a[2])
    IN  <<(a[1] \div g1) * (b[1] \div g2), (a[2] \div g2) * (b[2] \div g1)>>

RInv(a) == IF a[1] < 0 THEN <<-a[2], -a[1]>> ELSE <<a[2], a[1]>>

RDiv(a, b) == RMul(a, RInv(b))

RLt(a, b) == RSub(a, b)[1] < 0

RLe(a, b) == RSub(a, b)[1] <= 0

RMin(a, b) == IF RLt(b, a) THEN b ELSE a

RMax(a, b) == IF RLt(a, b) THEN b ELSE a

RAbs(a) == <<Abs(a[1]), a[2]>>

RPos(a) == a[1] > 0

(* Componentwise operations on vectors of rationals. *)
VAdd(u, v) == [i \in 1..Len(u) |-> RAdd(u[i], v[i])]
VMul(u, v) == [i \in 1..Len(u) |-> RMul(u[i], v[i])]
VDiv(u, v) == [i \in 1..Len(u) |-> RDiv(u[i], v[i])]
VScale(a, v) == [i \in 1..Len(v) |-> RMul(a, v[i])]
VShift(v, a) == [i \in 1..Len(v) |-> RAdd(v[i], a)]
VNeg(v) == [i \in 1..Len(v) |-> RNeg(v[i])]

RECURSIVE VSum(_)
VSum(v) == IF Len(v) = 0 THEN Zero ELSE RAdd(Head(v), VSum(Tail(v)))

VDot(u, v) == VSum(VMul(u, v))

AllPos(v) == \A i \in 1..Len(v) : RPos(v[i])

----------------------------------------------------------------------------
(* maxStepLength (lp.py 602-621).                                          *)

\* np.where(d < 0)[0]: the indices of the negative components, ascending.
WhereNeg(d) == SelectSeq([i \in 1..Len(d) |-> i], LAMBDA i : d[i][1] < 0)

\* np.argmin: the first index of a smallest entry.
ArgMin(q) ==
    CHOOSE k \in 1..Len(q) :
        /\ \A j \in 1..Len(q) : RLe(q[k], q[j])
        /\ \A j \in 1..(k - 1) : RLt(q[k], q[j])

\* A faulty maxStepLength: the cap min(1.0, .) is forgotten.
MslNoCap(x, d) ==
    LET whereneg == WhereNeg(d)
        dxneg == [k \in 1..Len(whereneg) |->
                     RDiv(RNeg(x[whereneg[k]]), d[whereneg[k]])]
    IN  IF Len(whereneg) > 0
        THEN LET kmin == ArgMin(dxneg)
                 stepmax == dxneg[kmin]
             IN  IF stepmax = One
                 THEN <<stepmax, -1>>
                 ELSE <<stepmax, whereneg[kmin]>>
        ELSE <<One, -1>>

maxStepLength(x, d) ==
    LET whereneg == WhereNeg(d)
        dxneg == [k \in 1..Len(whereneg) |->
                     RDiv(RNeg(x[whereneg[k]]), d[whereneg[k]])]
    IN  IF Len(whereneg) > 0
        THEN LET kmin == ArgMin(dxneg)
                 stepmax == RMin(One, dxneg[kmin])
             IN  IF stepmax = One
                 THEN <<stepmax, -1>>
                 ELSE <<stepmax, whereneg[kmin]>>
        ELSE <<One, -1>>

----------------------------------------------------------------------------
(* Bounds of the model.                                                    *)

\* Number of original variables (lp.original_n), of slack variables
\* (nSlacks) and of constraints (the rows of A).
ON == 1
NS == 2
M == 2
N == ON + NS

\* Longest sequence of calls made on one solver in the scaling lifecycle.
MaxCalls == 3

VARIABLES
    \* --- fields of the solver object -------------------------------------
    A,            \* self.A: the constraint matrix, M rows of N entries
    b,            \* self.b: right-hand side
    c,            \* self.c: cost of the original variables
    row_scale,    \* self.row_scale, <<>> while the attribute does not exist
    col_scale,    \* self.col_scale, <<>> while the attribute does not exist
    prob_scaled,  \* self.prob_scaled
    y,            \* self.y, <<>> while the attribute does not exist
    z,            \* self.z (and the local z of solve), <<>> while unset
    s,            \* the slack part of the iterate x
    variant,      \* "eq": RegLPInteriorPointSolver, "mc29": ...Solver29
    \* --- the caller ------------------------------------------------------
    pc,           \* position of the caller / of solve()
    err,          \* exception raised by the last call, or "none"
    hist,         \* the scale() and unscale() calls made so far
    pre,          \* (A, b, c) as they were when scale() was last called
    A0, b0, c0,   \* the problem data as handed to the constructor
    \* --- solve(): keyword arguments and locals ---------------------------
    itermax,      \* kwargs 'itermax'
    tolerance,    \* kwargs 'tolerance'
    PredictorCorrector, \* kwargs 'PredictorCorrector'
    iter,         \* iteration counter
    kktResid,     \* the residual computed by the current pass, -1 before
    regpr, regdu, \* regularization parameters
    nb_bump,      \* escalations made in the current iteration
    isFullRank,   \* LBL.isFullRank of the latest factorization
    status,       \* exit status, "none" until one is set
    \* --- solve(): history kept for the properties ------------------------
    facts,        \* isFullRank of each factorization of the current pass
    regAtTop,     \* (regpr, regdu) written into H first in the last iteration
    passes,       \* passes of the main loop started
    nUpdates,     \* iterate updates performed
    nSolves,      \* calls of solveSystem
    nBadSolves,   \* calls of solveSystem with a rank-deficient factorization
    \* --- maxStepLength as a function -------------------------------------
    fx,           \* the point x handed to the function
    fd,           \* the direction d handed to the function
    fres,         \* the pair (stepmax, kmin) returned, <<>> before the call
    \* --- further fields of the solver object ----------------------------
    x,            \* self.x, <<>> while the attribute does not exist
    obj_value,    \* self.obj_value, <<>> while the attribute does not exist
    objC0,        \* self.c0, the constant term of the objective (lp.py 86)
    H,            \* the block self.H[n:, :n] of the augmented matrix
    nsolve,       \* calls of solve() started on the solver
    \* --- locals kept for the properties ---------------------------------
    loc,          \* locals of the routine that ran last, <<>> before
    \* --- TrustRegionFramework (trustregion.py) --------------------------
    tr,           \* the fields of the object
    trcall        \* the last method call: name, arguments, outcome

dataVars == <<A, b, c, row_scale, col_scale, prob_scaled, variant, A0, b0, c0>>
iterVars == <<y, z, s>>
callVars == <<pc, err, hist, pre>>
argVars == <<itermax, tolerance, PredictorCorrector>>
loopVars == <<iter, kktResid, regpr, regdu, nb_bump, isFullRank, status>>
histVars == <<facts, regAtTop, passes, nUpdates, nSolves, nBadSolves>>
solveVars == <<argVars, loopVars, histVars>>
mslVars == <<fx, fd, fres>>
outVars == <<x, obj_value, objC0, H, nsolve>>
trVars == <<tr, trcall>>
extVars == <<outVars, loc, trVars>>
vars == <<dataVars, iterVars, callVars, solveVars, mslVars, extVars>>

Vectors(S, n) == [1..n -> S]

\* The values the variables of a part of the program hold in a
\* specification that does not exercise that part.
DataIdle ==
    /\ A = <<>> /\ b = <<>> /\ c = <<>>
    /\ row_scale = <<>> /\ col_scale = <<>>
    /\ prob_scaled = FALSE /\ variant = "eq"
    /\ A0 = <<>> /\ b0 = <<>> /\ c0 = <<>>

IterIdle == y = <<>> /\ z = <<>> /\ s = <<>>

MslIdle == fx = <<>> /\ fd = <<>> /\ fres = <<>>

OutIdle ==
    /\ x = <<>> /\ obj_value = <<>> /\ objC0 = <<>>
    /\ H = <<>> /\ nsolve = 0

TrIdle == tr = <<>> /\ trcall = <<>>

ExtIdle == OutIdle /\ loc = <<>> /\ TrIdle

SolveIdle ==
    /\ itermax = 0 /\ tolerance = 0 /\ PredictorCorrector = TRUE
    /\ iter = 0 /\ kktResid = -1 /\ regpr = <<0, 0, 1>> /\ regdu = <<0, 0, 1>>
    /\ nb_bump = 0 /\ isFullRank = TRUE /\ status = "none"
    /\ facts = <<>> /\ regAtTop = <<>> /\ passes = 0
    /\ nUpdates = 0 /\ nSolves = 0 /\ nBadSolves = 0

----------------------------------------------------------------------------
(* Calls of maxStepLength.                                                 *)

\* Inputs of the step-length function: positive points, any direction.
PosVals == {<<1, 2>>, <<1, 1>>, <<2, 1>>, <<3, 1>>}
DirVals == {<<-4, 1>>, <<-2, 1>>, <<-1, 1>>, <<-1, 2>>, <<0, 1>>, <<1, 1>>}

MslInit ==
    /\ fx \in Vectors(PosVals, NS)
    /\ fd \in Vectors(DirVals, NS)
    /\ fres = <<>>
    /\ DataIdle /\ IterIdle /\ SolveIdle /\ ExtIdle
    /\ pc = "call" /\ err = "none" /\ hist = <<>> /\ pre = <<>>

MslCall ==
    /\ pc = "call"
    /\ fres' = maxStepLength(fx, fd)
    /\ pc' = "returned"
    /\ UNCHANGED <<fx, fd, err, hist, pre, dataVars, iterVars, solveVars,
                   extVars>>

MslNext == MslCall

SpecMSL == MslInit /\ [][MslNext]_vars

\* C6: for v > 0, maxStepLength(v, dv) returns stepmax = min(1, min{-v[i]/dv[i]
\* : dv[i] < 0}), which lies in (0, 1]; when dv >= 0 componentwise it returns
\* exactly stepmax = 1 with blocking index -1.
C6_MaxStepLength ==
    pc = "returned" =>
        LET stepmax == fres[1]
            kmin == fres[2]
            neg == {i \in 1..NS : fd[i][1] < 0}
            ratio(i) == RDiv(RNeg(fx[i]), fd[i])
        IN  /\ RPos(stepmax) /\ RLe(stepmax, One)
            /\ \A i \in neg : RLe(stepmax, ratio(i))
            /\ stepmax = One \/ \E i \in neg : stepmax = ratio(i)
            /\ neg = {} => stepmax = One /\ kmin = -1

\* C6 witness: a call with a blocking component (stepmax < 1) has returned,
\* and so has one with no negative component.
C6_Witness ==
    /\ pc = "returned"
    /\ RLt(fres[1], One)
    /\ fres[2] # -1
    /\ \E i \in 1..NS : fd[i][1] >= 0

----------------------------------------------------------------------------
(* Problem scaling: scale() and unscale() of RegLPInteriorPointSolver      *)
(* (lp.py 138-244) and of RegLPInteriorPointSolver29 (lp.py 633-718).      *)
(* A.find() returns copies of the stored (nonzero) entries; A changes only *)
(* through A.put().                                                        *)

Rows == 1..M
Cols == 1..N

\* The largest element of a non-empty finite set of rationals.
RMaxOf(S) == CHOOSE mx \in S : \A e \in S : RLe(e, mx)

\* lp.py 174-178: row_scale[row] = max |value| over the stored entries of the
\* row, and 1.0 where that is 0.0.
RowScaleOf(Am) ==
    [i \in Rows |->
        LET mx == RMaxOf({Zero} \cup {RAbs(Am[i][j]) : j \in Cols})
        IN  IF mx = Zero THEN One ELSE mx]

\* lp.py 188-192: the same for the columns (of the row-scaled values).
ColScaleOf(Am) ==
    [j \in Cols |->
        LET mx == RMaxOf({Zero} \cup {RAbs(Am[i][j]) : i \in Rows})
        IN  IF mx = Zero THEN One ELSE mx]

\* values /= row_scale[irow] on the stored entries (lp.py 184).
DivRows(Am, rs) ==
    [i \in Rows |-> [j \in Cols |->
        IF Am[i][j] = Zero THEN Zero ELSE RDiv(Am[i][j], rs[i])]]

\* values /= col_scale[jcol] on the stored entries (lp.py 198).
DivCols(Am, cs) ==
    [i \in Rows |-> [j \in Cols |->
        IF Am[i][j] = Zero THEN Zero ELSE RDiv(Am[i][j], cs[j])]]

\* values *= row_scale[irow] (lp.py 230, 671).
MulRows(Am, rs) ==
    [i \in Rows |-> [j \in Cols |->
        IF Am[i][j] = Zero THEN Zero ELSE RMul(Am[i][j], rs[i])]]

\* values *= col_scale[jcol] (lp.py 229, 672).
MulCols(Am, cs) ==
    [i \in Rows |-> [j \in Cols |->
        IF Am[i][j] = Zero THEN Zero ELSE RMul(Am[i][j], cs[j])]]

\* The leading `on` entries of col_scale, and the trailing ones.
ColHead(cs) == [j \in 1..ON |-> cs[j]]
ColTail(cs) == [j \in 1..NS |-> cs[ON + j]]

\* RegLPInteriorPointSolver.scale (lp.py 163-215).
ScaleEq ==
    LET rs == RowScaleOf(A)
        A1 == DivRows(A, rs)
        cs == ColScaleOf(A1)
    IN  /\ A' = DivCols(A1, cs)
        /\ b' = VDiv(b, rs)
        /\ c' = VDiv(c, ColHead(cs))
        /\ row_scale' = rs
        /\ col_scale' = cs
        /\ prob_scaled' = TRUE

\* RegLPInteriorPointSolver29.scale (lp.py 659-689); rs, cs are the
\* exponentials of the logarithms mc29ad returns.
Scale29(rs, cs) ==
    /\ A' = MulCols(MulRows(A, rs), cs)
    /\ b' = VMul(b, rs)
    /\ c' = VMul(c, ColHead(cs))
    /\ row_scale' = rs
    /\ col_scale' = cs
    /\ prob_scaled' = TRUE

\* RegLPInteriorPointSolver.unscale (lp.py 223-244), called while self.y
\* and self.z hold yc and zc (<<>>: the attribute does not exist).
\* self.row_scale (224) and self.y (239) raise AttributeError while the
\* attribute does not exist; the statements before the raise have taken
\* effect.
UnscaleEq(yc, zc) ==
    IF row_scale = <<>>
    THEN /\ err' = "AttributeError"
         /\ y' = yc /\ z' = zc
         /\ UNCHANGED <<A, b, c, prob_scaled>>
    ELSE /\ A' = MulRows(MulCols(A, col_scale), row_scale)
         /\ b' = VMul(b, row_scale)
         /\ c' = VMul(c, ColHead(col_scale))
         /\ IF yc = <<>>
            THEN /\ err' = "AttributeError"
                 /\ y' = yc /\ z' = zc
                 /\ UNCHANGED prob_scaled
            ELSE /\ y' = VMul(yc, row_scale)
                 /\ z' = VDiv(zc, ColTail(col_scale))
                 /\ prob_scaled' = FALSE
                 /\ err' = "none"

\* RegLPInteriorPointSolver29.unscale (lp.py 697-718): the unscaled values
\* are computed (703-704) but never put back into A.
Unscale29(yc, zc) ==
    IF row_scale = <<>>
    THEN /\ err' = "AttributeError"
         /\ y' = yc /\ z' = zc
         /\ UNCHANGED <<A, b, c, prob_scaled>>
    ELSE /\ A' = A
         /\ b' = VDiv(b, row_scale)
         /\ c' = VDiv(c, ColHead(col_scale))
         /\ IF yc = <<>>
            THEN /\ err' = "AttributeError"
                 /\ y' = yc /\ z' = zc
                 /\ UNCHANGED prob_scaled
            ELSE /\ y' = VMul(yc, row_scale)
                 /\ z' = VDiv(zc, ColTail(col_scale))
                 /\ prob_scaled' = FALSE
                 /\ err' = "none"

\* Method dispatch on the class of the solver.
DoScale(rs, cs) == IF variant = "eq" THEN ScaleEq ELSE Scale29(rs, cs)
DoUnscale(yc, zc) ==
    IF variant = "eq" THEN UnscaleEq(yc, zc) ELSE Unscale29(yc, zc)

(* Inputs. *)

\* Rows of the constraint matrix: an empty row, a single entry in the first
\* or in the last column, and two dense rows.
RowKinds == 1..5
RowOf(k) ==
    [j \in Cols |->
        CASE k = 1 -> Zero
          [] k = 2 -> IF j = 1 THEN <<2, 1>> ELSE Zero
          [] k = 3 -> IF j = N THEN <<-1, 2>> ELSE Zero
          [] k = 4 -> IF j % 2 = 0 THEN <<-j, 1>> ELSE <<j, 3>>
          [] OTHER -> IF j = 1 THEN Zero ELSE <<3, j>>]
AMats == {[i \in Rows |-> RowOf(f[i])] : f \in [Rows -> RowKinds]}
BVals == {<<1, 1>>, <<-3, 1>>}
CVals == {<<2, 1>>, <<-1, 3>>}

\* Scale factors mc29ad may return (after exp): positive numbers.
Mc29Rows == {[i \in Rows |-> One],
             [i \in Rows |-> IF i % 2 = 1 THEN <<1, 2>> ELSE <<3, 1>>]}
Mc29Cols == {[j \in Cols |-> <<2, 1>>],
             [j \in Cols |-> IF j % 2 = 1 THEN <<1, 3>> ELSE One]}

\* Multipliers a solve may end with.
YVals == {[i \in Rows |-> <<i, 1>>], [i \in Rows |-> <<-1, 2>>]}
ZVals == {[j \in 1..NS |-> One], [j \in 1..NS |-> <<j, 2>>]}

ScaleInit ==
    /\ A \in AMats /\ b \in Vectors(BVals, M) /\ c \in Vectors(CVals, ON)
    /\ A0 = A /\ b0 = b /\ c0 = c
    /\ variant \in {"eq", "mc29"}
    /\ row_scale = <<>> /\ col_scale = <<>> /\ prob_scaled = FALSE
    /\ IterIdle /\ MslIdle /\ SolveIdle /\ ExtIdle
    /\ pc = "new" /\ err = "none" /\ hist = <<>> /\ pre = <<>>

\* __init__ (lp.py 89-91): prob_scaled = False; if scale: self.scale().
Construct(scale, rs, cs) ==
    /\ pc = "new"
    /\ IF scale
       THEN DoScale(rs, cs) /\ hist' = <<"scale">> /\ pre' = <<A, b, c>>
       ELSE UNCHANGED <<A, b, c, row_scale, col_scale, prob_scaled, hist, pre>>
    /\ pc' = "idle"
    /\ UNCHANGED <<variant, A0, b0, c0, err, iterVars, mslVars, solveVars,
                   extVars>>

\* The caller scales an unscaled problem again.
CallScale(rs, cs) ==
    /\ pc = "idle" /\ Len(hist) < MaxCalls
    /\ ~prob_scaled
    /\ DoScale(rs, cs)
    /\ hist' = Append(hist, "scale") /\ pre' = <<A, b, c>>
    /\ err' = "none"
    /\ UNCHANGED <<variant, A0, b0, c0, pc, iterVars, mslVars, solveVars,
                   extVars>>

\* The caller calls unscale().
CallUnscale ==
    /\ pc = "idle" /\ Len(hist) < MaxCalls
    /\ DoUnscale(y, z)
    /\ hist' = Append(hist, "unscale")
    /\ UNCHANGED <<row_scale, col_scale, variant, A0, b0, c0, pc, pre, s,
                   mslVars, solveVars, extVars>>

\* A whole solve(), seen from the problem data: it sets self.y and self.z
\* (lp.py 504-505) and unscales the problem if it is scaled (lp.py 514).
SolveRun(yv, zv) ==
    /\ pc = "idle" /\ Len(hist) < MaxCalls
    /\ IF prob_scaled
       THEN /\ DoUnscale(yv, zv)
            /\ hist' = Append(hist, "unscale")
       ELSE /\ y' = yv /\ z' = zv /\ err' = "none"
            /\ UNCHANGED <<A, b, c, prob_scaled, hist>>
    /\ UNCHANGED <<row_scale, col_scale, variant, A0, b0, c0, pc, pre, s,
                   mslVars, solveVars, extVars>>

ScaleNext ==
    \/ \E scale \in BOOLEAN, rs \in Mc29Rows, cs \in Mc29Cols :
           Construct(scale, rs, cs)
    \/ \E rs \in Mc29Rows, cs \in Mc29Cols : CallScale(rs, cs)
    \/ CallUnscale
    \/ \E yv \in YVals, zv \in ZVals : SolveRun(yv, zv)

SpecScale == ScaleInit /\ [][ScaleNext]_vars

\* The last call, and whether the last two calls were scale() then unscale().
LastCall == IF hist = <<>> THEN "none" ELSE hist[Len(hist)]
RoundTrip ==
    /\ Len(hist) >= 2
    /\ hist[Len(hist) - 1] = "scale"
    /\ hist[Len(hist)] = "unscale"

\* C8: default equilibration: scale() followed by unscale() leaves A, b and c
\* equal to their values before scale(), and prob_scaled is true exactly
\* between the two calls.
C8_ScaleRoundTrip ==
    variant = "eq" /\ pc = "idle" =>
        /\ RoundTrip => <<A, b, c>> = pre
        /\ prob_scaled <=> LastCall = "scale"

\* C9: the mc29 variant: after scale() followed by an unscale() that
\* returned, A, b and c are restored to their values before scale().
C9_Scale29RoundTrip ==
    variant = "mc29" /\ pc = "idle" /\ err = "none" /\ RoundTrip =>
        <<A, b, c>> = pre

\* C10: unscale() called while prob_scaled is false leaves A, b, c, y and z
\* unchanged (as a no-op, or by raising before anything is changed).
C10_UnscaleTwice ==
    [][(/\ variant = "eq"
        /\ ~prob_scaled
        /\ hist' = Append(hist, "unscale"))
       => <<A, b, c, y, z>>' = <<A, b, c, y, z>>]_vars

----------------------------------------------------------------------------
(* The regularization parameters regpr and regdu.                          *)
(*                                                                         *)
(* The update regpr**(1.1) leaves the rationals, so a parameter is kept as *)
(* <<P, Q, D>>, standing for 2^(P/D) * 5^(Q/D), with D > 0 and             *)
(* gcd(P, Q, D) = 1: this form is closed under *100, /2 and **1.1, and an  *)
(* order comparison is the sign of u + v*log2(5) for integers u, v, which  *)
(* is decided exactly (log2(5) is irrational) from rational bounds of      *)
(* log2(5).                                                                *)

Sgn(i) == IF i > 0 THEN 1 ELSE IF i < 0 THEN -1 ELSE 0

\* 9297/4004 < log2(5) < 1493/643.  Whether u/v < log2(5), for u, v > 0;
\* no value (an evaluation error) if the bounds do not decide it.
BelowLog2Of5(u, v) ==
    CASE u <= 2 * v -> TRUE
      [] u >= 3 * v -> FALSE
      [] u > 2 * v /\ u < 3 * v /\ u * 4004 <= v * 9297 -> TRUE
      [] u > 2 * v /\ u < 3 * v /\ u * 643 >= v * 1493 -> FALSE

\* The sign of u + v * log2(5).
SignLog(u, v) ==
    IF v = 0 THEN Sgn(u)
    ELSE IF u = 0 \/ Sgn(u) = Sgn(v) THEN Sgn(v)
    ELSE LET g == GCD(Abs(u), Abs(v))
         IN  IF BelowLog2Of5(Abs(u) \div g, Abs(v) \div g)
             THEN Sgn(v) ELSE Sgn(u)

RegNorm(P, Q, D) ==
    LET g == GCD(GCD(Abs(P), Abs(Q)), D)
    IN  <<P \div g, Q \div g, D \div g>>

\* The sign of r1 - r2.
RegCmp(r1, r2) ==
    SignLog(r1[1] * r2[3] - r2[1] * r1[3], r1[2] * r2[3] - r2[2] * r1[3])

RegLt(r1, r2) == RegCmp(r1, r2) < 0
RegLe(r1, r2) == RegCmp(r1, r2) <= 0

\* Python's min(a, b) and max(a, b).
RegMin(r1, r2) == IF RegLt(r2, r1) THEN r2 ELSE r1
RegMax(r1, r2) == IF RegLt(r1, r2) THEN r2 ELSE r1

\* regpr *= 100 (lp.py 382).
RegTimes100(r) == RegNorm(r[1] + 2 * r[3], r[2] + 2 * r[3], r[3])

\* regpr/2 and regpr**(1.1) (lp.py 491).
RegHalf(r) == RegNorm(r[1] - r[3], r[2], r[3])
RegPow11(r) == RegNorm(11 * r[1], 11 * r[2], 10 * r[3])

\* regpr_min = regdu_min = 1.0e-8 (lp.py 101-102).
RegFloor == <<-8, -8, 1>>

\* A faulty RegUpdate: the floor is forgotten.
RegUpdateNoFloor(r) == RegMin(RegHalf(r), RegPow11(r))

\* lp.py 491-492: regpr = max(min(regpr/2, regpr**(1.1)), self.regpr_min).
RegUpdate(r) == RegMax(RegMin(RegHalf(r), RegPow11(r)), RegFloor)

RECURSIVE RegTimes100Pow(_, _)
RegTimes100Pow(r, k) ==
    IF k = 0 THEN r ELSE RegTimes100Pow(RegTimes100(r), k - 1)

----------------------------------------------------------------------------
(* solve() (lp.py 274-519): the main loop, its stopping tests and the      *)
(* regularization escalation.  The factorization (LBLContext) and the      *)
(* linear solves are external: isFullRank is whatever the factorization    *)
(* reports.  The residuals are computed from the iterate by sparse matrix  *)
(* products and norms; here kktResid is the value that computation gives,  *)
(* in units of 1.0e-6, and the iterate itself is followed in SpecStep.     *)

\* Largest itermax handed to solve().
MaxIterMax == 3

\* nb_bump < 5 (lp.py 379) and nb_bump == 5 (lp.py 389).
MaxBump == 5

\* Values of the keyword arguments and of the residual.
TolVals == {0, 1}
KktVals == {0, 1, 2}

\* regpr, regdu handed to the constructor (lp.py 101-102): the default 1.0,
\* 1.0e-4, the floor 1.0e-8, and 1.0e-9.
RegInits == {<<0, 0, 1>>, <<-4, -4, 1>>, <<-8, -8, 1>>, <<-9, -9, 1>>}

SolveInit ==
    /\ pc = "start"
    /\ itermax \in 0..MaxIterMax
    /\ tolerance \in TolVals
    /\ PredictorCorrector \in BOOLEAN
    /\ regpr \in RegInits /\ regdu \in RegInits
    /\ iter = 0 /\ kktResid = -1 /\ nb_bump = 0 /\ isFullRank = TRUE
    /\ status = "none"
    /\ facts = <<>> /\ regAtTop = <<>> /\ passes = 0
    /\ nUpdates = 0 /\ nSolves = 0 /\ nBadSolves = 0
    /\ err = "none" /\ hist = <<>> /\ pre = <<>>
    /\ DataIdle /\ IterIdle /\ MslIdle /\ ExtIdle

\* solveSystem(LBL, rhs) called k times with the current factorization.
Solved(k) ==
    /\ nSolves' = nSolves + k
    /\ nBadSolves' = nBadSolves + (IF isFullRank' THEN 0 ELSE k)

\* set_initial_guess (lp.py 552-600): one factorization, two solves, the
\* shift of (s, z), and the test of lp.py 597; feasible is its outcome.
InitialGuess(fr, feasible) ==
    /\ pc = "start"
    /\ isFullRank' = fr
    /\ Solved(2)
    /\ IF feasible
       THEN pc' = "loop" /\ err' = "none"
       ELSE pc' = "raised" /\ err' = "ValueError"
    /\ UNCHANGED <<argVars, iter, kktResid, regpr, regdu, nb_bump, status,
                   facts, regAtTop, passes, nUpdates,
                   hist, pre, dataVars, iterVars, mslVars, extVars>>

\* lp.py 342: kktResid <= tolerance.
Converged(k) == k <= tolerance

\* A faulty IterLimit: the comparison is strict.
IterLimitStrict == iter > itermax

\* lp.py 347: iter >= itermax.
IterLimit == iter >= itermax

\* A faulty StopTest: the iteration limit is tested first.
StopTestLimitFirst(k) ==
    IF IterLimit THEN "Maximum number of iterations reached"
    ELSE IF Converged(k) THEN "Optimal solution found"
    ELSE "none"

\* lp.py 342-350: the stopping tests of a pass, in program order.
StopTest(k) ==
    IF Converged(k) THEN "Optimal solution found"
    ELSE IF IterLimit THEN "Maximum number of iterations reached"
    ELSE "none"

\* The head of a pass (lp.py 302-350): residuals, then the stopping tests.
LoopTop(k) ==
    /\ pc = "loop"
    /\ passes' = passes + 1
    /\ kktResid' = k
    /\ facts' = <<>>
    /\ status' = StopTest(k)
    /\ pc' = IF StopTest(k) = "none" THEN "factor" ELSE "exit"
    /\ UNCHANGED <<argVars, iter, regpr, regdu, nb_bump, isFullRank,
                   regAtTop, nUpdates, nSolves, nBadSolves,
                   err, hist, pre, dataVars, iterVars, mslVars, extVars>>

\* lp.py 370-378: H gets its diagonal and is factorized; nb_bump = 0.
Factorize(fr) ==
    /\ pc = "factor"
    /\ regAtTop' = <<regpr, regdu>>
    /\ isFullRank' = fr
    /\ facts' = <<fr>>
    /\ nb_bump' = 0
    /\ pc' = "bump"
    /\ UNCHANGED <<argVars, iter, kktResid, regpr, regdu, status,
                   passes, nUpdates, nSolves, nBadSolves,
                   err, hist, pre, dataVars, iterVars, mslVars, extVars>>

\* A faulty BumpAgain: one escalation fewer.
BumpAgainFewer == ~isFullRank /\ nb_bump < MaxBump - 1

\* lp.py 379: while not LBL.isFullRank and nb_bump < 5.
BumpAgain == ~isFullRank /\ nb_bump < MaxBump

\* lp.py 380-387: one escalation.
Bump(fr) ==
    /\ pc = "bump"
    /\ BumpAgain
    /\ regpr' = RegTimes100(regpr)
    /\ regdu' = RegTimes100(regdu)
    /\ isFullRank' = fr
    /\ facts' = Append(facts, fr)
    /\ nb_bump' = nb_bump + 1
    /\ UNCHANGED <<argVars, iter, kktResid, status, regAtTop,
                   passes, nUpdates, nSolves, nBadSolves,
                   pc, err, hist, pre, dataVars, iterVars, mslVars, extVars>>

\* lp.py 389: if not LBL.isFullRank and nb_bump == 5.
RegFailed == ~isFullRank /\ nb_bump = MaxBump

\* A faulty GiveUp: the step of the pass is applied before the exit.
GiveUpStepped ==
    /\ pc = "bump"
    /\ ~BumpAgain
    /\ RegFailed
    /\ status' = "Unable to regularize sufficiently."
    /\ nUpdates' = nUpdates + 1
    /\ iter' = iter + 1
    /\ pc' = "exit"
    /\ UNCHANGED <<argVars, kktResid, regpr, regdu, nb_bump, isFullRank,
                   facts, regAtTop, passes, nSolves, nBadSolves,
                   err, hist, pre, dataVars, iterVars, mslVars, extVars>>

\* lp.py 389-392: the regularization failure.
GiveUp ==
    /\ pc = "bump"
    /\ ~BumpAgain
    /\ RegFailed
    /\ status' = "Unable to regularize sufficiently."
    /\ pc' = "exit"
    /\ UNCHANGED <<argVars, iter, kktResid, regpr, regdu, nb_bump, isFullRank,
                   histVars, err, hist, pre, dataVars, iterVars, mslVars,
                   extVars>>

\* lp.py 394-494: the step.  The predictor-corrector method solves twice
\* (403, 432), the long-step method once (432); the iterate is updated
\* (482-488), the regularization parameters decay (491-492), iter += 1.
Step ==
    /\ pc = "bump"
    /\ ~BumpAgain
    /\ ~RegFailed
    /\ isFullRank' = isFullRank
    /\ Solved(IF PredictorCorrector THEN 2 ELSE 1)
    /\ nUpdates' = nUpdates + 1
    /\ regpr' = RegUpdate(regpr)
    /\ regdu' = RegUpdate(regdu)
    /\ iter' = iter + 1
    /\ pc' = "loop"
    /\ UNCHANGED <<argVars, kktResid, nb_bump, status, facts, regAtTop,
                   passes, err, hist, pre, dataVars, iterVars, mslVars,
                   extVars>>

\* lp.py 496-519: the results are stored and solve() returns.
Finish ==
    /\ pc = "exit"
    /\ pc' = "done"
    /\ UNCHANGED <<solveVars, err, hist, pre, dataVars, iterVars, mslVars,
                   extVars>>

Next ==
    \/ \E fr \in BOOLEAN, feasible \in BOOLEAN : InitialGuess(fr, feasible)
    \/ \E k \in KktVals : LoopTop(k)
    \/ \E fr \in BOOLEAN : Factorize(fr)
    \/ \E fr \in BOOLEAN : Bump(fr)
    \/ GiveUp
    \/ Step
    \/ Finish

Spec == SolveInit /\ [][Next]_vars

----------------------------------------------------------------------------
(* Properties of solve().                                                  *)

Optimal == "Optimal solution found"
IterationLimit == "Maximum number of iterations reached"
RegFailure == "Unable to regularize sufficiently."

Exited == pc \in {"exit", "done"}

AllDeficient == \A i \in 1..Len(facts) : ~facts[i]

\* C1: a rank-deficient factorization is answered by regpr *= 100,
\* regdu *= 100 and a refactorization, at most 5 times per iteration; the
\* status 'Unable to regularize sufficiently.' is reached if and only if the
\* first factorization and exactly 5 refactorizations were all rank
\* deficient, and the step is taken only after a full-rank factorization.
C1_Escalation ==
    /\ nb_bump <= MaxBump
    /\ pc = "bump" =>
          /\ Len(facts) = nb_bump + 1
          /\ \A i \in 1..nb_bump : ~facts[i]
          /\ regpr = RegTimes100Pow(regAtTop[1], nb_bump)
          /\ regdu = RegTimes100Pow(regAtTop[2], nb_bump)
    /\ Exited =>
          (status = RegFailure <=> Len(facts) = MaxBump + 1 /\ AllDeficient)
    /\ pc = "loop" /\ facts # <<>> =>
          /\ facts[Len(facts)]
          /\ Len(facts) <= MaxBump + 1

\* C1 witness: a solve has ended with the regularization failure after six
\* rank-deficient factorizations.
C1_Witness ==
    pc = "done" /\ status = RegFailure /\ Len(facts) = 6 /\ nb_bump = 5

\* C2: no linear system is solved with a factorization that reported rank
\* deficiency, in set_initial_guess or in the main loop.
C2_NoRankDeficientSolve == nBadSolves = 0

\* The number of statements solve() can still execute: a pass is the head,
\* the factorization, at most MaxBump escalations and the step.
PassLen == MaxBump + 5
Remaining ==
    CASE pc = "start"  -> PassLen * (itermax + 1) + 1
      [] pc = "loop"   -> PassLen * (itermax - iter) + MaxBump + 4
      [] pc = "factor" -> PassLen * (itermax - iter) + MaxBump + 3
      [] pc = "bump"   -> PassLen * (itermax - iter) + MaxBump + 2 - nb_bump
      [] pc = "exit"   -> 1
      [] OTHER         -> 0

\* C4: the main loop ends after at most itermax + 1 passes (every statement
\* of solve() strictly decreases the bounded count Remaining, and every pass
\* either ends the loop or updates the iterate); on exit the status is one
\* of the three exit statuses, iter <= itermax, and iter is the number of
\* iterate updates.
C4_Termination ==
    /\ [](/\ passes <= itermax + 1
          /\ iter <= itermax
          /\ iter = nUpdates
          /\ passes \in {iter, iter + 1}
          /\ Remaining >= 0
          /\ Exited => status \in {Optimal, IterationLimit, RegFailure}
          /\ Exited => passes = iter + 1)
    /\ [][Remaining' < Remaining]_vars

\* C4 witness: a solve has ended at the iteration limit after itermax
\* updates and itermax + 1 passes.
C4_Witness ==
    /\ pc = "done" /\ status = IterationLimit
    /\ itermax = 2 /\ iter = 2 /\ nUpdates = 2 /\ passes = 3

\* C5: in each pass the convergence test comes first, then the iteration
\* limit, then the factorization and the step: the status is 'optimal' iff
\* kktResid <= tolerance at the last pass, 'iteration limit' implies
\* kktResid > tolerance and iter >= itermax, and the factorization, the step
\* and the regularization failure happen only with kktResid > tolerance and
\* iter < itermax.
C5_TestOrder ==
    /\ Exited =>
          /\ status = Optimal <=> kktResid <= tolerance
          /\ status = IterationLimit =>
                kktResid > tolerance /\ iter >= itermax
          /\ status = RegFailure => kktResid > tolerance /\ iter < itermax
    /\ pc \in {"factor", "bump"} => kktResid > tolerance /\ iter < itermax

\* C5 witness: a solve has ended 'optimal' in the pass with iter = itermax.
C5_Witness ==
    pc = "done" /\ status = Optimal /\ iter = itermax /\ itermax > 0

\* C7 as claimed: regpr and regdu never increase from one iteration to the
\* next and are never below 1.0e-8.
C7_RegMonotone ==
    /\ RegLe(RegFloor, regpr) /\ RegLe(RegFloor, regdu)
    /\ pc = "loop" /\ nUpdates > 0 =>
          RegLe(regpr, regAtTop[1]) /\ RegLe(regdu, regAtTop[2])

\* C7 as amended: once at or above 1.0e-8 (at the latest after the first
\* update) regpr and regdu stay there, and over an iteration without
\* escalation that started at or above the floor they do not increase.
C7_RegDecay ==
    /\ [](nUpdates > 0 => RegLe(RegFloor, regpr) /\ RegLe(RegFloor, regdu))
    /\ [][/\ RegLe(RegFloor, regpr) => RegLe(RegFloor, regpr')
          /\ RegLe(RegFloor, regdu) => RegLe(RegFloor, regdu')]_vars
    /\ [](pc = "loop" /\ nUpdates > 0 /\ nb_bump = 0 =>
            /\ RegLe(RegFloor, regAtTop[1]) => RegLe(regpr, regAtTop[1])
            /\ RegLe(RegFloor, regAtTop[2]) => RegLe(regdu, regAtTop[2]))

\* C7 witness: an iteration without escalation has decreased regpr by the
\* power rule (not by halving) and left regdu at the floor.
C7_Witness ==
    /\ pc = "loop" /\ nUpdates > 0 /\ nb_bump = 0
    /\ RegLt(regpr, regAtTop[1])
    /\ regpr = RegPow11(regAtTop[1])
    /\ regdu = RegFloor /\ regAtTop[2] = RegFloor

----------------------------------------------------------------------------
(* The numbers of set_initial_guess and of the first iteration of solve(). *)
(* The factorization and the solves are done outside of these sources; the *)
(* slack and multiplier parts of their solutions are inputs.               *)

\* builtin min over the negative entries of v (lp.py 579, 583).
MinNeg(v) ==
    LET neg == WhereNeg(v)
    IN  v[neg[ArgMin([k \in 1..Len(neg) |-> v[neg[k]]])]]

\* lp.py 576-586: the shift that makes v nonnegative, 1.5 when none is due.
Shift0(v) ==
    LET d0 == IF Len(WhereNeg(v)) = 0
              THEN Zero
              ELSE RMul(<<-3, 2>>, MinNeg(v))
    IN  IF d0 = Zero THEN <<3, 2>> ELSE d0

\* A faulty ShiftedGuess: the second part of each shift is subtracted.
ShiftedGuessMinus(sr, zr) ==
    LET dp0 == Shift0(sr)
        dd0 == Shift0(zr)
        es == VSum(VShift(sr, dp0))
        ez == VSum(VShift(zr, dd0))
        xs == VSum(VMul(VShift(sr, dp0), VShift(zr, dd0)))
        dp == RSub(dp0, RMul(<<1, 2>>, RDiv(xs, ez)))
        dd == RSub(dd0, RMul(<<1, 2>>, RDiv(xs, es)))
    IN  <<VShift(sr, dp), VShift(zr, dd), dp, dd>>

\* lp.py 575-595: Mehrotra's shift of the least-squares (s, z); the result
\* is the shifted s and z and the shifts dp and dd.
ShiftedGuess(sr, zr) ==
    LET dp0 == Shift0(sr)
        dd0 == Shift0(zr)
        es == VSum(VShift(sr, dp0))
        ez == VSum(VShift(zr, dd0))
        xs == VSum(VMul(VShift(sr, dp0), VShift(zr, dd0)))
        dp == RAdd(dp0, RMul(<<1, 2>>, RDiv(xs, ez)))
        dd == RAdd(dd0, RMul(<<1, 2>>, RDiv(xs, es)))
    IN  <<VShift(sr, dp), VShift(zr, dd), dp, dd>>

\* A faulty Damp: the floor of the factor is 1 + mult.
DampLoose(num, den) ==
    IF den[1] = 0 THEN <<11, 10>> ELSE RMax(<<11, 10>>, RDiv(num, den))

\* lp.py 457-458, 462-463: max(1 - mult, gamma) with mult = 0.1 and
\* gamma = num / den.  With den = 0 the quotient of the nonnegative num is
\* -inf or nan, and the builtin max returns its first argument.
Damp(num, den) ==
    IF den[1] = 0 THEN <<9, 10>> ELSE RMax(<<9, 10>>, RDiv(num, den))

\* A faulty StepLengths: Mehrotra's rescaling only when exactly one of ip, id
\* is active.
StepLengthsOnlyOne(sv, zv, ds, dz, mu, pcorr) ==
    LET mp == maxStepLength(sv, ds)
        md == maxStepLength(zv, dz)
        ip == mp[2]
        id == md[2]
        tau == RMax(<<1999, 2000>>, RSub(One, mu))
        mult == <<1, 10>>
        mu_tmp == RDiv(VDot(VAdd(sv, VScale(mp[1], ds)),
                            VAdd(zv, VScale(md[1], dz))), <<Len(sv), 1>>)
        zip == RAdd(zv[ip], RMul(md[1], dz[ip]))
        gamma_p == Damp(RSub(RMul(mult, mu_tmp), RMul(sv[ip], zip)),
                        RMul(RMul(mp[1], ds[ip]), zip))
        alpha_p1 == IF ip # -1 /\ id = -1 THEN RMul(mp[1], gamma_p) ELSE mp[1]
        sid == RAdd(sv[id], RMul(alpha_p1, ds[id]))
        gamma_d == Damp(RSub(RMul(mult, mu_tmp), RMul(zv[id], sid)),
                        RMul(RMul(md[1], dz[id]), sid))
        alpha_d1 == IF id # -1 /\ ip = -1 THEN RMul(md[1], gamma_d) ELSE md[1]
        kp == IF ip # -1 /\ id = -1 THEN "Mehrotra" ELSE "none"
        kd == IF id # -1 /\ ip = -1 THEN "Mehrotra" ELSE "none"
    IN  IF pcorr
        THEN IF ip = id /\ ip # -1
             THEN <<RMul(alpha_p1, tau), RMul(alpha_d1, tau),
                    ip, id, mp[1], md[1], "tau", "tau">>
             ELSE <<alpha_p1, alpha_d1, ip, id, mp[1], md[1], kp, kd>>
        ELSE <<RMul(mp[1], tau), RMul(md[1], tau),
               ip, id, mp[1], md[1], "tau", "tau">>

\* lp.py 440-473: the step lengths.  The result is (alpha_p, alpha_d, ip, id,
\* the two largest step lengths of maxStepLength, and the rule that was
\* applied to each of them: Mehrotra's rescaling, tau, or none).
StepLengths(sv, zv, ds, dz, mu, pcorr) ==
    LET mp == maxStepLength(sv, ds)
        md == maxStepLength(zv, dz)
        ip == mp[2]
        id == md[2]
        tau == RMax(<<1999, 2000>>, RSub(One, mu))
        mult == <<1, 10>>
        mu_tmp == RDiv(VDot(VAdd(sv, VScale(mp[1], ds)),
                            VAdd(zv, VScale(md[1], dz))), <<Len(sv), 1>>)
        zip == RAdd(zv[ip], RMul(md[1], dz[ip]))
        gamma_p == Damp(RSub(RMul(mult, mu_tmp), RMul(sv[ip], zip)),
                        RMul(RMul(mp[1], ds[ip]), zip))
        alpha_p1 == IF ip # -1 /\ ip # id THEN RMul(mp[1], gamma_p) ELSE mp[1]
        sid == RAdd(sv[id], RMul(alpha_p1, ds[id]))
        gamma_d == Damp(RSub(RMul(mult, mu_tmp), RMul(zv[id], sid)),
                        RMul(RMul(md[1], dz[id]), sid))
        alpha_d1 == IF id # -1 /\ ip # id THEN RMul(md[1], gamma_d) ELSE md[1]
        kp == IF ip # -1 /\ ip # id THEN "Mehrotra" ELSE "none"
        kd == IF id # -1 /\ ip # id THEN "Mehrotra" ELSE "none"
    IN  IF pcorr
        THEN IF ip = id /\ ip # -1
             THEN <<RMul(alpha_p1, tau), RMul(alpha_d1, tau),
                    ip, id, mp[1], md[1], "tau", "tau">>
             ELSE <<alpha_p1, alpha_d1, ip, id, mp[1], md[1], kp, kd>>
        ELSE <<RMul(mp[1], tau), RMul(md[1], tau),
               ip, id, mp[1], md[1], "tau", "tau">>

\* lp.py 408: dz of the affine-scaling step, from its slack part dsAff.
AffDz(sv, zv, dsAff) == VNeg(VMul(zv, VShift(VDiv(dsAff, sv), One)))

\* lp.py 395, 410-422: the centering parameter sigma.
Centering(sv, zv, dsAff, pcorr) ==
    LET ns == <<Len(sv), 1>>
        mu == RDiv(VSum(VMul(sv, zv)), ns)
        dzAff == AffDz(sv, zv, dsAff)
        ap == maxStepLength(sv, dsAff)[1]
        ad == maxStepLength(zv, dzAff)[1]
        muAff == RDiv(VDot(VAdd(sv, VScale(ap, dsAff)),
                           VAdd(zv, VScale(ad, dzAff))), ns)
        q == RDiv(muAff, mu)
    IN  IF pcorr
        THEN RMul(q, RMul(q, q))
        ELSE RMin(<<1, 10>>, RMul(<<100, 1>>, mu))

\* A faulty CompRhs: the corrector leaves out the predictor's ds*dz.
CompRhsNoPredictor(sv, zv, dsAff, pcorr) ==
    LET comp == VMul(sv, zv)
        mu == RDiv(VSum(comp), <<Len(sv), 1>>)
        sigma == Centering(sv, zv, dsAff, pcorr)
    IN  VShift(comp, RNeg(RMul(sigma, mu)))

\* lp.py 311, 394-426: the complementarity right-hand side comp of the
\* step, from the slack part dsAff of the affine-scaling solution.
CompRhs(sv, zv, dsAff, pcorr) ==
    LET comp == VMul(sv, zv)
        mu == RDiv(VSum(comp), <<Len(sv), 1>>)
        sigma == Centering(sv, zv, dsAff, pcorr)
        comp1 == IF pcorr
                 THEN VAdd(comp, VMul(dsAff, AffDz(sv, zv, dsAff)))
                 ELSE comp
    IN  VShift(comp1, RNeg(RMul(sigma, mu)))

\* The slack and multiplier parts of the least-squares solutions
\* (lp.py 563-573), here with equal components, and the components of the
\* slack part of a step relative to s.
RawVals == {<<-1, 1>>, <<0, 1>>, <<2, 1>>}
RawVecs(ns) == {[i \in 1..ns |-> a] : a \in RawVals}
FacVals == {<<-2, 1>>, <<-1, 1>>, <<-1, 2>>, <<1, 1>>}

StepInit ==
    /\ pc = "start"
    /\ PredictorCorrector \in BOOLEAN
    /\ itermax = 1 /\ tolerance = 0
    /\ iter = 0 /\ kktResid = -1 /\ regpr = <<0, 0, 1>> /\ regdu = <<0, 0, 1>>
    /\ nb_bump = 0 /\ isFullRank = TRUE /\ status = "none"
    /\ facts = <<>> /\ regAtTop = <<>> /\ passes = 0
    /\ nUpdates = 0 /\ nSolves = 0 /\ nBadSolves = 0
    /\ err = "none" /\ hist = <<>> /\ pre = <<>>
    /\ DataIdle /\ IterIdle /\ MslIdle /\ ExtIdle

\* set_initial_guess (lp.py 552-600) with (sr, zr) the slack parts of the
\* two solutions.  x is a copy of the first solution and s = x[on:] is a
\* view of it (564-565), so the x that is returned carries the shifted s;
\* its original part is left as solved, here zero.  loc keeps the locals
\* as they are at the return or at the raise.
set_initial_guess(sr, zr) ==
    /\ pc = "start"
    /\ \E g \in {ShiftedGuess(sr, zr)} :
           /\ s' = g[1]
           /\ z' = g[2]
           /\ loc' = [routine |-> "set_initial_guess", sr |-> sr, zr |-> zr,
                      dp |-> g[3], dd |-> g[4],
                      x |-> [j \in 1..(ON + Len(sr)) |->
                                IF j <= ON THEN Zero ELSE g[1][j - ON]]]
           /\ IF AllPos(g[1]) /\ AllPos(g[2])
              THEN pc' = "loop" /\ err' = "none"
              ELSE pc' = "raised" /\ err' = "ValueError"
    /\ nSolves' = nSolves + 2
    /\ UNCHANGED <<argVars, loopVars, facts, regAtTop, passes, nUpdates,
                   nBadSolves, y, hist, pre, dataVars, mslVars,
                   outVars, trVars>>

\* The first pass of the main loop with a full-rank factorization
\* (lp.py 302-494): the solutions of the two solves have the slack parts
\* fa * s (affine scaling, lp.py 403-407) and fc * s (lp.py 432-436).
Iterate(fa, fc) ==
    /\ pc = "loop"
    /\ iter = 0
    /\ \E mu \in {RDiv(VSum(VMul(s, z)), <<Len(s), 1>>)},
          comp \in {CompRhs(s, z, VMul(fa, s), PredictorCorrector)},
          sigma \in {Centering(s, z, VMul(fa, s), PredictorCorrector)},
          ds \in {VMul(fc, s)} :
          \E dz \in {VNeg(VDiv(VAdd(comp, VMul(z, ds)), s))} :
             \E al \in {StepLengths(s, z, ds, dz, mu, PredictorCorrector)} :
                /\ s' = VAdd(s, VScale(al[1], ds))
                /\ z' = VAdd(z, VScale(al[2], dz))
                /\ loc' = [routine |-> "solve", s |-> s, z |-> z,
                           mu |-> mu, dsAff |-> VMul(fa, s),
                           sigma |-> sigma, comp |-> comp,
                           ds |-> ds, dz |-> dz, al |-> al,
                           solves |-> IF PredictorCorrector THEN 2 ELSE 1]
    /\ passes' = passes + 1
    /\ nSolves' = nSolves + (IF PredictorCorrector THEN 2 ELSE 1)
    /\ nUpdates' = nUpdates + 1
    /\ regAtTop' = <<regpr, regdu>>
    /\ facts' = <<TRUE>>
    /\ regpr' = RegUpdate(regpr)
    /\ regdu' = RegUpdate(regdu)
    /\ iter' = iter + 1
    /\ pc' = "updated"
    /\ UNCHANGED <<argVars, kktResid, nb_bump, isFullRank, status,
                   nBadSolves, y, err, hist, pre, dataVars, mslVars,
                   outVars, trVars>>

StepNext ==
    \/ \E ns \in 1..NS :
          \E sr \in RawVecs(ns), zr \in RawVecs(ns) :
             set_initial_guess(sr, zr)
    \/ \E fa \in Vectors(FacVals, Len(s)), fc \in Vectors(FacVals, Len(s)) :
          Iterate(fa, fc)

SpecStep == StepInit /\ [][StepNext]_vars

\* C3: at the start of a main-loop iteration and after the iterate update,
\* in both modes and for every step direction, every slack s_i and every
\* multiplier z_i is strictly positive.
C3_StrictInterior ==
    pc \in {"loop", "updated"} => AllPos(s) /\ AllPos(z)

(***************************************************************************)
(* The life of a solver object of class RegLPInteriorPointSolver: the      *)
(* constructor, then calls of solve().  The main loop runs as in Spec; the *)
(* problem data, the block of H that holds A and the results stored at     *)
(* the end of solve() are followed through the calls.                      *)
(***************************************************************************)

\* Calls of solve() on one solver object.
MaxSolves == 2

\* A*x (lp.py 310) and y*A (lp.py 312).
MatVec(Am, xv) == [i \in Rows |-> VDot(Am[i], xv)]
VecMat(yv, Am) == [j \in Cols |-> VDot(yv, [i \in Rows |-> Am[i][j]])]

\* lp.py 310: pFeas = A*x - b.
pFeas(Am, xv, bv) == VAdd(MatVec(Am, xv), VNeg(bv))

\* lp.py 312-313: dFeas = y*A ; dFeas[:on] -= c ; dFeas[on:] += z.
dFeas(Am, yv, zv, cv) ==
    LET yA == VecMat(yv, Am)
    IN  [j \in Cols |-> IF j <= ON THEN RSub(yA[j], cv[j])
                                   ELSE RAdd(yA[j], zv[j - ON])]

ZeroVec(v) == \A i \in 1..Len(v) : v[i] = Zero

\* A constraint matrix whose first column is scaled by the equilibration
\* (first row 1, 2, 0, ...; every other row a single -1/2), and a matrix
\* with equal dense rows.
LifeA ==
    [i \in Rows |-> [j \in Cols |->
        IF i = 1
        THEN (IF j = 1 THEN One ELSE IF j = 2 THEN <<2, 1>> ELSE Zero)
        ELSE (IF j = N + 2 - i THEN <<-1, 2>> ELSE Zero)]]
LifeMats == {LifeA, [i \in Rows |-> RowOf(4)]}
LifeB == [i \in Rows |-> IF i = 1 THEN One ELSE <<-3, 1>>]
LifeC == [j \in 1..ON |-> <<-1, 3>>]

\* Final iterates (x, y, z) of the main loop.  The first is primal and dual
\* feasible for LifeA, LifeB, LifeC after scaling.
LifeIterates ==
    { << [j \in Cols |-> IF j = 1 THEN <<1, 2>>
                         ELSE IF j = N THEN <<6, 1>> ELSE Zero],
         [i \in Rows |-> IF i = 1 THEN <<-2, 3>> ELSE One],
         [j \in 1..NS |-> IF j = 1 THEN <<2, 3>> ELSE One] >>,
      << [j \in Cols |-> One],
         [i \in Rows |-> <<i, 1>>],
         [j \in 1..NS |-> Rat(j, 2)] >> }

LifeInit ==
    /\ A \in LifeMats /\ b = LifeB /\ c = LifeC
    /\ A0 = A /\ b0 = b /\ c0 = c
    /\ variant = "eq"
    /\ row_scale = <<>> /\ col_scale = <<>> /\ prob_scaled = FALSE
    /\ x = <<>> /\ obj_value = <<>> /\ objC0 = One /\ H = <<>> /\ nsolve = 0
    /\ loc = <<>> /\ TrIdle
    /\ IterIdle /\ MslIdle /\ SolveIdle
    /\ pc = "new" /\ err = "none" /\ hist = <<>> /\ pre = <<>>

\* RegLPInteriorPointSolver.__init__ (lp.py 30-117): the problem is scaled
\* if asked (91), then the block of H below the diagonal gets A (98-99).
LifeConstruct(scale) ==
    /\ pc = "new"
    /\ IF scale
       THEN ScaleEq /\ hist' = <<"scale">> /\ pre' = <<A, b, c>>
       ELSE UNCHANGED <<A, b, c, row_scale, col_scale, prob_scaled, hist, pre>>
    /\ H' = A'
    /\ pc' = "idle"
    /\ UNCHANGED <<variant, A0, b0, c0, err, iterVars, mslVars, solveVars,
                   x, obj_value, objC0, nsolve, loc, trVars>>

\* solve() is entered (lp.py 246-283): the keyword arguments are read and
\* the locals of the main loop get their first values; regpr and regdu
\* start from self.regpr, self.regdu, here the default 1.0.
SolveCall(im, tol, pcorr) ==
    /\ pc \in {"idle", "raised"}
    /\ nsolve < MaxSolves
    /\ nsolve' = nsolve + 1
    /\ itermax' = im /\ tolerance' = tol /\ PredictorCorrector' = pcorr
    /\ iter' = 0 /\ kktResid' = -1
    /\ regpr' = <<0, 0, 1>> /\ regdu' = <<0, 0, 1>>
    /\ nb_bump' = 0 /\ isFullRank' = TRUE /\ status' = "none"
    /\ facts' = <<>> /\ regAtTop' = <<>> /\ passes' = 0
    /\ nUpdates' = 0 /\ nSolves' = 0 /\ nBadSolves' = 0
    /\ err' = "none"
    /\ loc' = <<>>
    /\ pc' = "start"
    /\ UNCHANGED <<dataVars, iterVars, mslVars, hist, pre,
                   x, obj_value, objC0, H, trVars>>

\* The end of solve() (lp.py 496-519) with the final iterate it = (x, y, z):
\* the results are stored (503-511), the problem is unscaled if it is
\* scaled (513-514), the objective value is computed with the c that
\* results (517).  loc keeps the locals as they are on return; the locals of
\* the main loop do not outlive the call.
SolveEnd(it) ==
    /\ pc = "exit"
    /\ loc' = [routine |-> "solve", scaled |-> prob_scaled,
               A |-> A, b |-> b, c |-> c,
               x |-> it[1], y |-> it[2], z |-> it[3],
               passes |-> passes, nUpdates |-> nUpdates,
               iter |-> iter, kktResid |-> kktResid, facts |-> facts]
    /\ x' = it[1]
    /\ IF prob_scaled
       THEN /\ UnscaleEq(it[2], it[3])
            /\ hist' = Append(hist, "unscale")
       ELSE /\ y' = it[2] /\ z' = it[3] /\ err' = "none"
            /\ UNCHANGED <<A, b, c, prob_scaled, hist>>
    /\ obj_value' = RAdd(VDot(c', ColHead(x')), objC0)
    /\ regpr' = <<0, 0, 1>> /\ regdu' = <<0, 0, 1>>
    /\ nb_bump' = 0 /\ isFullRank' = TRUE
    /\ facts' = <<>> /\ regAtTop' = <<>> /\ passes' = 0
    /\ nUpdates' = 0 /\ nSolves' = 0 /\ nBadSolves' = 0
    /\ pc' = "idle"
    /\ UNCHANGED <<row_scale, col_scale, variant, A0, b0, c0, pre, s,
                   argVars, iter, kktResid, status,
                   mslVars, objC0, H, nsolve, trVars>>

LifeNext ==
    \/ \E scale \in BOOLEAN : LifeConstruct(scale)
    \/ \E im \in {0, 2}, pcorr \in BOOLEAN : SolveCall(im, 1, pcorr)
    \/ \E fr \in BOOLEAN, feasible \in BOOLEAN : InitialGuess(fr, feasible)
    \/ \E k \in {0, 2} : LoopTop(k)
    \/ \E fr \in BOOLEAN : Factorize(fr)
    \/ \E fr \in BOOLEAN : Bump(fr)
    \/ GiveUp
    \/ Step
    \/ \E it \in LifeIterates : SolveEnd(it)

SpecLife == LifeInit /\ [][LifeNext]_vars

\* solve() has returned from a problem that was scaled during the solve.
ReturnedScaled ==
    /\ pc = "idle" /\ loc # <<>>
    /\ loc.routine = "solve" /\ loc.scaled

\* C11: when solve() returns from a scaled problem, the reported x is in
\* the original units: if the final scaled iterate satisfies A'x' = b',
\* the reported x satisfies A x = b for the restored A and b; and obj_value,
\* computed with the restored c, equals the objective of the scaled problem
\* at the final scaled iterate.
C11_ReportedPrimal ==
    ReturnedScaled =>
        /\ ZeroVec(pFeas(loc.A, loc.x, loc.b)) => ZeroVec(pFeas(A, x, b))
        /\ obj_value = RAdd(VDot(loc.c, ColHead(loc.x)), objC0)

\* C12: with the default equilibration, multipliers (y', z') that satisfy
\* the dual equations of the scaled problem are reported as (y, z) that
\* satisfy the dual equations A1^T y = c, A2^T y + z = 0 of the restored
\* problem.
C12_ReportedDual ==
    ReturnedScaled =>
        (ZeroVec(dFeas(loc.A, loc.y, loc.z, loc.c)) =>
            ZeroVec(dFeas(A, y, z, c)))

\* The last solve() ended on a fatal condition: set_initial_guess raised
\* ValueError out of solve(), or solve() returned with the regularization
\* failure.
Fatal ==
    \/ pc = "raised" /\ err = "ValueError"
    \/ pc = "idle" /\ nsolve > 0 /\ status = RegFailure

\* C14: after a solve() that ended on a fatal condition A, b, c are the
\* original unscaled data, and no further solve() starts on the solver.
C14_FatalEndsSolve ==
    [][ /\ Fatal' => <<A', b', c'>> = <<A0', b0', c0'>>
        /\ Fatal => nsolve' = nsolve ]_vars

\* C19: whenever H has just been factorized in the main loop (after
\* Factorize and after every Bump), the block of H that was filled from A
\* equals the current A of the solver, in every solve() on the solver.
C19_FactorizedBlock == pc = "bump" => H = A

\* C20: a solve() that ends with the regularization failure in pass k
\* applies no step in that pass: the iteration count is the number of
\* updates applied, one per earlier pass, the iterate and kktResid do not
\* change when the failure is declared, and solve() returns normally with
\* x, y, z, obj_value set and the problem unscaled (A, b, c the original
\* data).
C20_RegFailureExit ==
    /\ [](pc = "idle" /\ loc # <<>> /\ status = RegFailure =>
            /\ iter = loc.nUpdates /\ loc.nUpdates = loc.passes - 1
            /\ kktResid = loc.kktResid /\ iter = loc.iter
            /\ x = loc.x /\ y # <<>> /\ z # <<>> /\ obj_value # <<>>
            /\ err = "none"
            /\ ~prob_scaled /\ <<A, b, c>> = <<A0, b0, c0>>)
    /\ [][status' = RegFailure /\ status # RegFailure =>
            /\ UNCHANGED <<iter, kktResid, nUpdates, iterVars>>
            /\ pc' = "exit"]_vars
    /\ [][pc = "exit" /\ status = RegFailure => pc' = "idle"]_vars

\* The failure is declared in the second pass of a solve on a scaled
\* problem, after one step, and solve() has returned.
C20_Witness ==
    /\ pc = "idle" /\ loc # <<>> /\ status = RegFailure
    /\ loc.scaled /\ loc.passes = 2

(***************************************************************************)
(* set_initial_guess on its own, with least-squares solutions whose slack  *)
(* parts have unequal components.                                          *)
(***************************************************************************)

\* Components of the slack parts of the two least-squares solutions.
GuessVals == {<<-2, 1>>, <<-1, 2>>, <<0, 1>>, <<1, 1>>}

GuessNext ==
    \E ns \in 1..NS :
        \E sr \in Vectors(GuessVals, ns), zr \in Vectors(GuessVals, ns) :
            set_initial_guess(sr, zr)

SpecGuess == StepInit /\ [][GuessNext]_vars

\* lp.py 576-586 as a formula: -1.5 times the least component when it is
\* negative (1.5 times the largest of the negated components), 1.5 when
\* no component is negative.
FirstShift(v) ==
    IF \E i \in 1..Len(v) : RLt(v[i], Zero)
    THEN RMul(<<3, 2>>, RMaxOf({RNeg(v[i]) : i \in 1..Len(v)}))
    ELSE <<3, 2>>

\* set_initial_guess has run.
Guessed == loc # <<>> /\ loc.routine = "set_initial_guess"

\* C13: set_initial_guess shifts by dp > 0 and dd > 0, where dp is -1.5
\* times the most negative component of s (1.5 if there is none) plus
\* 0.5*xs/ez, and dd likewise from z plus 0.5*xs/es; when it returns, the
\* slacks (the trailing entries of the returned x) and z are strictly
\* positive, and it raises ValueError exactly when they are not.
C13_InitialGuess ==
    Guessed =>
        LET dp0 == FirstShift(loc.sr)
            dd0 == FirstShift(loc.zr)
            sp == VShift(loc.sr, dp0)
            zp == VShift(loc.zr, dd0)
            xs == VDot(sp, zp)
        IN  /\ RPos(loc.dp) /\ RPos(loc.dd)
            /\ loc.dp = RAdd(dp0, RDiv(xs, RMul(<<2, 1>>, VSum(zp))))
            /\ loc.dd = RAdd(dd0, RDiv(xs, RMul(<<2, 1>>, VSum(sp))))
            /\ s = VShift(loc.sr, loc.dp) /\ z = VShift(loc.zr, loc.dd)
            /\ \A i \in 1..Len(s) : loc.x[ON + i] = s[i]
            /\ pc = "loop" => AllPos(s) /\ AllPos(z) /\ err = "none"
            /\ pc = "raised" <=> ~(AllPos(s) /\ AllPos(z))
            /\ pc = "raised" => err = "ValueError"

\* set_initial_guess has returned a point from solutions whose slack parts
\* have negative components of different sizes.
C13_Witness ==
    /\ Guessed /\ pc = "loop"
    /\ Len(s) = NS
    /\ \E i, j \in 1..NS : RLt(loc.sr[i], loc.sr[j]) /\ RLt(loc.sr[j], Zero)
    /\ \E i \in 1..NS : RLt(loc.zr[i], Zero)

(***************************************************************************)
(* One pass of the main loop from an interior iterate with small           *)
(* components: the step of lp.py 394-494 in both modes.                    *)
(***************************************************************************)

\* Components of s and z at the top of the pass, and the components, relative
\* to s, of the slack parts of the affine-scaling solution (lp.py 403-407)
\* and of the second solution (lp.py 432-436).
IterVals == {<<1, 1>>, <<1, 64>>}
AffFacs == {<<-2, 1>>, <<0, 1>>}
CorFacs == {<<-2, 1>>, <<1, 1>>}

IterInit ==
    /\ pc = "loop"
    /\ PredictorCorrector \in BOOLEAN
    /\ itermax = 1 /\ tolerance = 0
    /\ iter = 0 /\ kktResid = -1 /\ regpr = <<0, 0, 1>> /\ regdu = <<0, 0, 1>>
    /\ nb_bump = 0 /\ isFullRank = TRUE /\ status = "none"
    /\ facts = <<>> /\ regAtTop = <<>> /\ passes = 0
    /\ nUpdates = 0 /\ nSolves = 2 /\ nBadSolves = 0
    /\ err = "none" /\ hist = <<>> /\ pre = <<>>
    /\ \E ns \in 1..NS :
          s \in Vectors(IterVals, ns) /\ z \in Vectors(IterVals, ns)
    /\ y = <<>>
    /\ DataIdle /\ MslIdle /\ ExtIdle

IterNext ==
    \E fa \in Vectors(AffFacs, Len(s)), fc \in Vectors(CorFacs, Len(s)) :
        Iterate(fa, fc)

SpecIter == IterInit /\ [][IterNext]_vars

\* The pass has applied its step.
Stepped == pc = "updated" /\ loc # <<>> /\ loc.routine = "solve"

\* tau of lp.py 445, from the mu of the pass.
TauOf(mu) == RMax(<<1999, 2000>>, RSub(One, mu))

\* C17 as stated: in predictor-corrector mode Mehrotra's rescaling is
\* applied only when exactly one of ip, id is active, and only to the step
\* length of the active one; when both are active on the same index both
\* step lengths are the largest ones times tau = max(0.9995, 1 - mu).
C17_MehrotraExactlyOne ==
    Stepped /\ PredictorCorrector =>
        LET al == loc.al
        IN  /\ al[7] = "Mehrotra" => al[3] # -1 /\ al[4] = -1
            /\ al[8] = "Mehrotra" => al[4] # -1 /\ al[3] = -1
            /\ al[3] # -1 /\ al[4] = -1 =>
                  /\ al[7] = "Mehrotra" /\ al[8] = "none"
                  /\ RLe(RMul(<<9, 10>>, al[5]), al[1])
            /\ al[4] # -1 /\ al[3] = -1 =>
                  /\ al[8] = "Mehrotra" /\ al[7] = "none"
                  /\ RLe(RMul(<<9, 10>>, al[6]), al[2])
            /\ al[3] = al[4] /\ al[3] # -1 =>
                  /\ al[1] = RMul(al[5], TauOf(loc.mu))
                  /\ al[2] = RMul(al[6], TauOf(loc.mu))

\* C17, amended: in predictor-corrector mode Mehrotra's rescaling (a factor
\* of at least 0.9) is applied to alpha_p exactly when ip is active and
\* differs from id, and to alpha_d exactly when id is active and differs
\* from ip, hence to both when both are active on different indices; when
\* both are active on the same index both step lengths are the largest
\* ones times tau = max(0.9995, 1 - mu); a step length to which neither
\* rule applies is the largest one; the update uses these step lengths.
C17_MehrotraRule ==
    Stepped /\ PredictorCorrector =>
        LET al == loc.al
            same == al[3] = al[4] /\ al[3] # -1
        IN  /\ al[7] = "Mehrotra" <=> (al[3] # -1 /\ al[3] # al[4])
            /\ al[8] = "Mehrotra" <=> (al[4] # -1 /\ al[3] # al[4])
            /\ al[7] = "Mehrotra" => RLe(RMul(<<9, 10>>, al[5]), al[1])
            /\ al[8] = "Mehrotra" => RLe(RMul(<<9, 10>>, al[6]), al[2])
            /\ al[7] = "tau" <=> same
            /\ al[8] = "tau" <=> same
            /\ same => /\ al[1] = RMul(al[5], TauOf(loc.mu))
                       /\ al[2] = RMul(al[6], TauOf(loc.mu))
            /\ al[7] = "none" => al[1] = al[5]
            /\ al[8] = "none" => al[2] = al[6]
            /\ al[5] = maxStepLength(loc.s, loc.ds)[1]
            /\ al[6] = maxStepLength(loc.z, loc.dz)[1]
            /\ s = VAdd(loc.s, VScale(al[1], loc.ds))
            /\ z = VAdd(loc.z, VScale(al[2], loc.dz))

\* A predictor-corrector step in which s and z block on different indices.
C17_Witness ==
    /\ Stepped /\ PredictorCorrector
    /\ loc.al[3] # -1 /\ loc.al[4] # -1 /\ loc.al[3] # loc.al[4]

\* C18: a completed pass of the long-step method makes one solve against
\* the factorization of the pass, with sigma = min(0.1, 100*mu) and the
\* complementarity s*z, and both largest step lengths are multiplied by
\* tau; a completed pass of the predictor-corrector method makes two solves
\* against the one factorization of the pass, and the corrector's
\* complementarity is s*z + ds*dz of the predictor, before the centering
\* term sigma*mu is subtracted.
C18_SolvesPerPass ==
    /\ [](Stepped =>
            LET sz == VMul(loc.s, loc.z)
                mu == RDiv(VSum(sz), <<Len(loc.s), 1>>)
                dzAff == VNeg(VAdd(loc.z,
                                   VDiv(VMul(loc.z, loc.dsAff), loc.s)))
                center == RMul(loc.sigma, mu)
            IN  /\ Len(facts) = 1
                /\ loc.mu = mu
                /\ loc.dz = VNeg(VDiv(VAdd(loc.comp, VMul(loc.z, loc.ds)),
                                      loc.s))
                /\ IF PredictorCorrector
                   THEN /\ loc.solves = 2
                        /\ VShift(loc.comp, center) =
                               VAdd(sz, VMul(loc.dsAff, dzAff))
                   ELSE /\ loc.solves = 1
                        /\ loc.sigma = RMin(<<1, 10>>, RMul(<<100, 1>>, mu))
                        /\ VShift(loc.comp, center) = sz
                        /\ loc.al[1] = RMul(loc.al[5], TauOf(mu))
                        /\ loc.al[2] = RMul(loc.al[6], TauOf(mu))
                        /\ loc.al[5] = maxStepLength(loc.s, loc.ds)[1]
                        /\ loc.al[6] = maxStepLength(loc.z, loc.dz)[1])
    /\ [][iter' = iter + 1 =>
            /\ nSolves' = nSolves + (IF PredictorCorrector THEN 2 ELSE 1)
            /\ nUpdates' = nUpdates + 1]_vars

\* A completed pass of the predictor-corrector method, after the two solves
\* of set_initial_guess, with a predictor that changes the complementarity.
C18_Witness ==
    /\ Stepped /\ PredictorCorrector /\ nSolves = 4
    /\ Len(s) = NS
    /\ \E i \in 1..Len(s) : loc.dsAff[i] # Zero

(***************************************************************************)
(* TrustRegionFramework (trustregion.py 12-89).  Radii and step norms are  *)
(* rationals in units of 1.0e6, which the rule of UpdateRadius is          *)
(* indifferent to: DeltaMax = 1.0e10 is 10000 units.  In Rho a number is a *)
(* pair <<a, e>> for a + e * (10 * eps) with rationals a and e and eps the *)
(* machine epsilon of _Epsilon: such a number is positive when a > 0, or   *)
(* when a = 0 and e > 0.                                                   *)
(***************************************************************************)

\* Calls made on one TrustRegionFramework object.
MaxTRCalls == 3

EPos(p) == RPos(p[1]) \/ (p[1] = Zero /\ RPos(p[2]))
EZero(p) == p[1] = Zero /\ p[2] = Zero

\* max(1.0, abs(f)) * 10.0 * self.eps (trustregion.py 59-60).
TolOf(f) == <<Zero, RMax(One, RAbs(f))>>

\* A faulty PredOf: the safeguard term is left out.
PredNoTol(f, m) == <<RNeg(m[1]), RNeg(m[2])>>

\* trustregion.py 59: pred = -m + max(1.0, abs(f)) * 10.0 * self.eps.
PredOf(f, m) == <<RNeg(m[1]), RAdd(RNeg(m[2]), TolOf(f)[2])>>

\* trustregion.py 60: ared = f - f_trial + max(1.0, abs(f)) * 10.0 * self.eps.
AredOf(f, ft) == <<RSub(f, ft), TolOf(f)[2]>>

\* The keyword Delta of the constructor, and the arguments of the calls.
DeltaVals == {<<1, 1>>, <<5000, 1>>}
StepNorms == {<<0, 1>>, <<1, 10>>, <<1, 1>>, <<5000, 1>>, <<40000, 1>>}
RhoVals == {<<-1, 1>>, <<0, 1>>, <<1, 100>>, <<1, 2>>, <<99, 100>>, <<1, 1>>}
FVals == {<<0, 1>>, <<-3, 1>>}
FTrialVals == {<<-1, 1>>, <<1, 1>>}
MVals == { <<<<-1, 1>>, Zero>>, <<Zero, Zero>>, <<Zero, <<1, 2>>>>,
           <<Zero, One>>, <<One, Zero>> }

\* TrustRegionFramework.__init__ (trustregion.py 33-42) has run with the
\* default thresholds and factors.
TRInit ==
    /\ \E d \in DeltaVals :
          tr = [Delta0 |-> d, Delta |-> d, DeltaMax |-> <<10000, 1>>,
                eta1 |-> <<1, 100>>, eta2 |-> <<99, 100>>,
                gamma1 |-> <<1, 3>>, gamma2 |-> <<5, 2>>]
    /\ trcall = [n |-> 0, name |-> "__init__", within |-> TRUE]
    /\ pc = "tr" /\ err = "none" /\ hist = <<>> /\ pre = <<>>
    /\ DataIdle /\ IterIdle /\ MslIdle /\ SolveIdle /\ OutIdle /\ loc = <<>>

\* Rho (trustregion.py 54-67).  With check_positive false and pred = 0 the
\* division raises ZeroDivisionError on Python floats and gives inf or nan
\* on numpy floats.
Rho(f, ft, m, check_positive) ==
    /\ trcall.n < MaxTRCalls
    /\ \E pred \in {PredOf(f, m)}, ared \in {AredOf(f, ft)} :
          \E out \in (IF EPos(pred) \/ ~check_positive
                      THEN IF EZero(pred)
                           THEN {"ZeroDivisionError", "inf or nan"}
                           ELSE {"returned"}
                      ELSE {"ValueError"}) :
             trcall' = [n |-> trcall.n + 1, name |-> "Rho",
                        f |-> f, f_trial |-> ft, m |-> m,
                        check_positive |-> check_positive,
                        before |-> tr, pred |-> pred, ared |-> ared,
                        outcome |-> out, within |-> trcall.within]
    /\ UNCHANGED <<tr, dataVars, iterVars, callVars, solveVars, mslVars,
                   outVars, loc>>

\* The step of a call lies within the current radius: 0 <= stepNorm <= Delta.
StepWithin(stepNorm) == RLe(Zero, stepNorm) /\ RLe(stepNorm, tr.Delta)

\* A faulty UpdateRadius: the enlarged radius is not capped at DeltaMax.
UpdateRadiusNoCap(rho, stepNorm) ==
    /\ trcall.n < MaxTRCalls
    /\ tr' = IF RLt(rho, tr.eta1)
             THEN [tr EXCEPT !.Delta = RMul(tr.gamma1, stepNorm)]
             ELSE IF RLe(tr.eta2, rho)
             THEN [tr EXCEPT !.Delta =
                      RMax(tr.Delta, RMul(tr.gamma2, stepNorm))]
             ELSE tr
    /\ trcall' = [n |-> trcall.n + 1, name |-> "UpdateRadius",
                  rho |-> rho, stepNorm |-> stepNorm, before |-> tr,
                  outcome |-> "returned",
                  within |-> trcall.within /\ StepWithin(stepNorm)]
    /\ UNCHANGED <<dataVars, iterVars, callVars, solveVars, mslVars,
                   outVars, loc>>

\* UpdateRadius (trustregion.py 69-83).
UpdateRadius(rho, stepNorm) ==
    /\ trcall.n < MaxTRCalls
    /\ tr' = IF RLt(rho, tr.eta1)
             THEN [tr EXCEPT !.Delta = RMul(tr.gamma1, stepNorm)]
             ELSE IF RLe(tr.eta2, rho)
             THEN [tr EXCEPT !.Delta =
                      RMin(RMax(tr.Delta, RMul(tr.gamma2, stepNorm)),
                           tr.DeltaMax)]
             ELSE tr
    /\ trcall' = [n |-> trcall.n + 1, name |-> "UpdateRadius",
                  rho |-> rho, stepNorm |-> stepNorm, before |-> tr,
                  outcome |-> "returned",
                  within |-> trcall.within /\ StepWithin(stepNorm)]
    /\ UNCHANGED <<dataVars, iterVars, callVars, solveVars, mslVars,
                   outVars, loc>>

\* ResetRadius (trustregion.py 85-89).
ResetRadius ==
    /\ trcall.n < MaxTRCalls
    /\ tr' = [tr EXCEPT !.Delta = tr.Delta0]
    /\ trcall' = [n |-> trcall.n + 1, name |-> "ResetRadius", before |-> tr,
                  outcome |-> "returned", within |-> trcall.within]
    /\ UNCHANGED <<dataVars, iterVars, callVars, solveVars, mslVars,
                   outVars, loc>>

TRNext ==
    \/ \E f \in FVals, ft \in FTrialVals, m \in MVals, cp \in BOOLEAN :
          Rho(f, ft, m, cp)
    \/ \E rho \in RhoVals, stepNorm \in StepNorms : UpdateRadius(rho, stepNorm)
    \/ ResetRadius

SpecTR == TRInit /\ [][TRNext]_vars

\* C15: UpdateRadius(rho, stepNorm) does what its docstring says: Delta
\* becomes gamma1*stepNorm if rho < eta1, gamma2*Delta if rho >= eta2, and
\* is unchanged otherwise.
C15_UpdateRadiusRule ==
    trcall.name = "UpdateRadius" =>
        tr.Delta =
            IF RLt(trcall.rho, tr.eta1)
            THEN RMul(tr.gamma1, trcall.stepNorm)
            ELSE IF RLe(tr.eta2, trcall.rho)
            THEN RMul(tr.gamma2, trcall.before.Delta)
            ELSE trcall.before.Delta

\* Rho has been called with check_positive = True.
RhoChecked == trcall.name = "Rho" /\ trcall.check_positive

\* C16 as stated: with check_positive = True, Rho raises whenever the
\* predicted reduction -m is negative, returns ared/pred only when -m is
\* positive, and a raise leaves Delta unchanged.
C16_RhoNegative ==
    RhoChecked =>
        /\ EPos(trcall.m) => trcall.outcome = "ValueError"
        /\ trcall.outcome = "returned" =>
              EPos(<<RNeg(trcall.m[1]), RNeg(trcall.m[2])>>)
        /\ trcall.outcome = "ValueError" => tr.Delta = trcall.before.Delta

\* C16, amended: with check_positive = True, Rho raises ValueError exactly
\* when pred = -m + 10*eps*max(1, |f|) is not positive, and returns
\* ared/pred, with ared = f - f_trial + 10*eps*max(1, |f|), exactly when
\* pred is positive; no call of Rho changes the trust-region object.
C16_RhoSafeguarded ==
    /\ RhoChecked =>
        LET tol == RMax(One, RAbs(trcall.f))
            pred == <<RNeg(trcall.m[1]), RSub(tol, trcall.m[2])>>
            ared == <<RSub(trcall.f, trcall.f_trial), tol>>
        IN  /\ trcall.outcome = "ValueError" <=> ~EPos(pred)
            /\ trcall.outcome = "returned" <=> EPos(pred)
            /\ trcall.outcome = "returned" =>
                  trcall.pred = pred /\ trcall.ared = ared
    /\ trcall.name = "Rho" => tr = trcall.before

\* Rho returns a ratio for a predicted reduction -m that is negative and
\* smaller in size than the safeguard term.
C16_Witness ==
    /\ RhoChecked /\ trcall.outcome = "returned"
    /\ EPos(trcall.m)

\* C21: in every pass and in both modes the step lengths used in the update
\* satisfy 0 < alpha_p <= alpha_p_max <= 1 and 0 < alpha_d <= alpha_d_max
\* <= 1, where alpha_p_max and alpha_d_max are what maxStepLength returns
\* for (s, ds) and (z, dz) of the step: the refinement never enlarges a step
\* beyond its largest feasible length.
C21_StepWithinMax ==
    Stepped =>
        LET al == loc.al
        IN  /\ al[5] = maxStepLength(loc.s, loc.ds)[1]
            /\ al[6] = maxStepLength(loc.z, loc.dz)[1]
            /\ RPos(al[1]) /\ RLe(al[1], al[5]) /\ RLe(al[5], One)
            /\ RPos(al[2]) /\ RLe(al[2], al[6]) /\ RLe(al[6], One)

\* A predictor-corrector step whose primal step length is blocked below 1
\* and is shortened by Mehrotra's rescaling.
C21_Witness ==
    /\ Stepped /\ PredictorCorrector
    /\ loc.al[7] = "Mehrotra"
    /\ RLt(loc.al[1], loc.al[5]) /\ RLt(loc.al[5], One)

(***************************************************************************)
(* The head of the first pass of the main loop (lp.py 302-350, iter = 0)   *)
(* with its arithmetic: the residuals, the perturbation vectors q and r,   *)
(* the relative duality gap and the stopping tests.  Here kktResid and     *)
(* tolerance are rationals; loc.x is the local iterate x, whose slack part *)
(* is s.                                                                   *)
(***************************************************************************)

\* norm_infty of a non-empty vector (lp.py 322-324).
NormInf(v) == RMaxOf({RAbs(v[i]) : i \in 1..Len(v)})

RECURSIVE IPow(_, _)
IPow(base, e) == IF e <= 0 THEN 1 ELSE base * IPow(base, e - 1)

\* The rational 2^P * 5^Q that a regularization parameter <<P, Q, 1>>
\* stands for.
RegRat(g) ==
    <<IPow(2, g[1]) * IPow(5, g[2]), IPow(2, -g[1]) * IPow(5, -g[2])>>

\* lp.py 319: q = dFeas/regpr.
PerturbQ(df, rp) == [i \in 1..Len(df) |-> RDiv(df[i], rp)]

\* A faulty PerturbR: the sign is lost.
PerturbRPlus(pf, rd) == [i \in 1..Len(pf) |-> RDiv(pf[i], rd)]

\* lp.py 320: r = -pFeas/regdu.
PerturbR(pf, rd) == [i \in 1..Len(pf) |-> RNeg(RDiv(pf[i], rd))]

\* lp.py 322, 324: pResid and dResid.
pResid(pf, rv, rd, normc) ==
    RDiv(NormInf(VAdd(pf, VScale(rd, rv))), RAdd(One, normc))
dResid(df, qv, rp, normb) ==
    RDiv(NormInf(VAdd(df, VNeg(VScale(rp, qv)))), RAdd(One, normb))

\* lp.py 327-331: the relative duality gap; rNorm**2 is r.r.
rgap(cv, xv, bv, yv, rv, rd) ==
    LET cx == VDot(cv, ColHead(xv))
        by == VDot(bv, yv)
        gap == RAdd(RSub(cx, by), RMul(rd, RAdd(VDot(rv, rv), VDot(rv, yv))))
    IN  RDiv(RAbs(gap), RAdd(One, RAbs(cx)))

\* lp.py 334: kktResid = max(max(pResid, dResid)/self.normbc, rgap), with
\* normbc = 1 + max(normb, normc) (lp.py 93-95).
KktOf(pr, dr, rg, normb, normc) ==
    RMax(RDiv(RMax(pr, dr), RAdd(One, RMax(normb, normc))), rg)

\* lp.py 342-350 on rationals: the stopping tests of a pass, in program
\* order.
StopTestRat(k) ==
    IF RLe(k, tolerance) THEN "Optimal solution found"
    ELSE IF IterLimit THEN "Maximum number of iterations reached"
    ELSE "none"

\* Components of the initial point, the values 1.0 and 0.1 of regpr, 1.0 and
\* 4.0 of regdu, and the tolerances.
ResidXVals == {<<0, 1>>, <<1, 1>>}
ResidYVals == {<<0, 1>>, <<1, 1>>}
ResidSZVals == {<<1, 1>>, <<2, 1>>}
ResidRegPr == {<<0, 0, 1>>, <<-1, -1, 1>>}
ResidRegDu == {<<0, 0, 1>>, <<2, 0, 1>>}
ResidTols == {<<1, 100>>, <<1, 1>>}

ResidInit ==
    /\ A \in LifeMats /\ b = LifeB /\ c = LifeC
    /\ A0 = A /\ b0 = b /\ c0 = c
    /\ variant = "eq"
    /\ row_scale = <<>> /\ col_scale = <<>> /\ prob_scaled = FALSE
    /\ pc = "loop"
    /\ itermax \in {0, 1} /\ tolerance \in ResidTols
    /\ PredictorCorrector = TRUE
    /\ regpr \in ResidRegPr /\ regdu \in ResidRegDu
    /\ iter = 0 /\ kktResid = -1 /\ nb_bump = 0 /\ isFullRank = TRUE
    /\ status = "none"
    /\ facts = <<>> /\ regAtTop = <<>> /\ passes = 0
    /\ nUpdates = 0 /\ nSolves = 2 /\ nBadSolves = 0
    /\ err = "none" /\ hist = <<>> /\ pre = <<>>
    /\ s \in Vectors(ResidSZVals, NS) /\ z \in Vectors(ResidSZVals, NS)
    /\ y \in Vectors(ResidYVals, M)
    /\ \E xo \in Vectors(ResidXVals, ON) :
          loc = [routine |-> "solve",
                 x |-> [j \in Cols |-> IF j <= ON THEN xo[j] ELSE s[j - ON]]]
    /\ MslIdle /\ OutIdle /\ TrIdle

\* lp.py 302-350 in the first pass (iter = 0).
FirstPassTop ==
    /\ pc = "loop" /\ iter = 0 /\ passes = 0
    /\ \E pf \in {pFeas(A, loc.x, b)}, df \in {dFeas(A, y, z, c)},
          rp \in {RegRat(regpr)}, rd \in {RegRat(regdu)} :
          \E qv \in {PerturbQ(df, rp)}, rv \in {PerturbR(pf, rd)} :
             \E pr \in {pResid(pf, rv, rd, NormInf(c))},
                dr \in {dResid(df, qv, rp, NormInf(b))},
                rg \in {rgap(c, loc.x, b, y, rv, rd)} :
                \E k \in {KktOf(pr, dr, rg, NormInf(b), NormInf(c))} :
                   /\ kktResid' = k
                   /\ status' = StopTestRat(k)
                   /\ pc' = IF StopTestRat(k) = "none" THEN "factor"
                                                      ELSE "exit"
                   /\ loc' = [routine |-> "solve", x |-> loc.x,
                              pFeas |-> pf, dFeas |-> df, q |-> qv, r |-> rv,
                              pResid |-> pr, dResid |-> dr, rgap |-> rg]
    /\ passes' = passes + 1
    /\ facts' = <<>>
    /\ UNCHANGED <<argVars, iter, regpr, regdu, nb_bump, isFullRank,
                   regAtTop, nUpdates, nSolves, nBadSolves,
                   err, hist, pre, dataVars, iterVars, mslVars,
                   outVars, trVars>>

ResidNext == FirstPassTop

SpecResid == ResidInit /\ [][ResidNext]_vars

\* The stopping tests of the first pass have run.
FirstTested == passes = 1 /\ iter = 0 /\ pc \in {"factor", "exit"}

\* C22: in the first pass q = dFeas/regpr and r = -pFeas/regdu, so
\* pFeas + regdu*r and dFeas - regpr*q are zero and pResid = dResid = 0 for
\* every initial point; kktResid is rgap, and the solve stops with the
\* optimal status in that pass, without a step, exactly when rgap is at most
\* the tolerance, whatever pFeas and dFeas are.
C22_FirstPassResiduals ==
    FirstTested =>
        LET pf == VAdd(MatVec(A, loc.x), VNeg(b))
            rd == RegRat(regdu)
            rp == RegRat(regpr)
            cx == VDot(c, ColHead(loc.x))
            gap == RAdd(RSub(cx, VDot(b, y)),
                        RMul(rd, RAdd(VDot(loc.r, loc.r), VDot(loc.r, y))))
        IN  /\ loc.pFeas = pf
            /\ VScale(rp, loc.q) = loc.dFeas
            /\ VScale(rd, loc.r) = VNeg(pf)
            /\ loc.pResid = Zero /\ loc.dResid = Zero
            /\ loc.rgap = RDiv(RAbs(gap), RAdd(One, RAbs(cx)))
            /\ kktResid = loc.rgap
            /\ status = Optimal <=> RLe(loc.rgap, tolerance)
            /\ status = Optimal => pc = "exit" /\ nUpdates = 0

\* The solve stops with the optimal status in the first pass at a point that
\* is neither primal nor dual feasible.
C22_Witness ==
    /\ FirstTested /\ status = Optimal
    /\ ~ZeroVec(loc.pFeas) /\ ~ZeroVec(loc.dFeas)
    /\ regdu # <<0, 0, 1>> /\ regpr # <<0, 0, 1>>

\* C23: for a framework constructed with 0 < Delta <= DeltaMax and
\* 0 < gamma1 < 1 < gamma2, after any sequence of ResetRadius calls and of
\* UpdateRadius calls with 0 <= stepNorm <= Delta: Delta never exceeds
\* DeltaMax, an update with rho >= eta2 never decreases Delta, an update with
\* rho < eta1 never increases Delta, and ResetRadius restores Delta to the
\* Delta0 of the construction.
C23_RadiusBounds ==
    /\ RPos(tr.Delta0) /\ RLe(tr.Delta0, tr.DeltaMax)
    /\ RPos(tr.gamma1) /\ RLt(tr.gamma1, One) /\ RLt(One, tr.gamma2)
    /\ trcall.within
    =>
    /\ RLe(tr.Delta, tr.DeltaMax)
    /\ trcall.name = "UpdateRadius" /\ RLe(tr.eta2, trcall.rho) =>
          RLe(trcall.before.Delta, tr.Delta)
    /\ trcall.name = "UpdateRadius" /\ RLt(trcall.rho, tr.eta1) =>
          RLe(tr.Delta, trcall.before.Delta)
    /\ trcall.name = "ResetRadius" =>
          tr.Delta = tr.Delta0 /\ tr.Delta0 = trcall.before.Delta0
    /\ trcall.n > 0 => tr.Delta0 = trcall.before.Delta0

\* A later call of a sequence within the precondition: an update with
\* rho >= eta2 whose step is as long as the radius enlarges Delta up to the
\* cap DeltaMax.
C23_Witness ==
    /\ trcall.within /\ trcall.n > 1
    /\ trcall.name = "UpdateRadius" /\ RLe(tr.eta2, trcall.rho)
    /\ trcall.stepNorm = trcall.before.Delta
    /\ RLt(trcall.before.Delta, tr.Delta) /\ tr.Delta = tr.DeltaMax

====
